---- MODULE Spec2Model ----
(***************************************************************************)
(* Model of server.js: the ward lookup pipeline getWardUsingPuppeteer      *)
(* (browser session, form driving, result wait, field extraction, session  *)
(* teardown) and the POST /api/lookup handler that calls it.               *)
(***************************************************************************)
EXTENDS Integers, Sequences, FiniteSets, TLC

(***************************************************************************)
(* JavaScript values.  A value that may be null/undefined is a sequence of *)
(* length 0 (absent) or 1 (present).                                       *)
(***************************************************************************)
None == <<>>
Some(v) == <<v>>
Truthy(opt) == opt /= None /\ opt[1] /= ""

Min(S) == CHOOSE x \in S : \A y \in S : x <= y
Max(S) == CHOOSE x \in S : \A y \in S : x >= y

(***************************************************************************)
(* Strings, as the page script uses them.                                  *)
(***************************************************************************)
Char(s, i) == SubSeq(s, i, i)
IsSpace(ch) == ch \in {" ", "\t", "\n", "\r"}
IsNewline(ch) == ch \in {"\n", "\r"}
NotNewline(ch) == ~IsNewline(ch)
IsDigit(ch) == ch \in {"0", "1", "2", "3", "4", "5", "6", "7", "8", "9"}

LowerChar(ch) ==
    CASE ch = "A" -> "a" [] ch = "B" -> "b" [] ch = "C" -> "c" [] ch = "D" -> "d"
      [] ch = "E" -> "e" [] ch = "F" -> "f" [] ch = "G" -> "g" [] ch = "H" -> "h"
      [] ch = "I" -> "i" [] ch = "J" -> "j" [] ch = "K" -> "k" [] ch = "L" -> "l"
      [] ch = "M" -> "m" [] ch = "N" -> "n" [] ch = "O" -> "o" [] ch = "P" -> "p"
      [] ch = "Q" -> "q" [] ch = "R" -> "r" [] ch = "S" -> "s" [] ch = "T" -> "t"
      [] ch = "U" -> "u" [] ch = "V" -> "v" [] ch = "W" -> "w" [] ch = "X" -> "x"
      [] ch = "Y" -> "y" [] ch = "Z" -> "z" [] OTHER -> ch

RECURSIVE ToLowerCase(_)
ToLowerCase(s) ==
    IF s = "" THEN ""
    ELSE LowerChar(Char(s, 1)) \o ToLowerCase(SubSeq(s, 2, Len(s)))

Includes(s, sub) ==
    \E i \in 1..(Len(s) - Len(sub) + 1) : SubSeq(s, i, i + Len(sub) - 1) = sub

Trim(s) ==
    LET keep == {i \in 1..Len(s) : ~IsSpace(Char(s, i))}
    IN  IF keep = {} THEN "" ELSE SubSeq(s, Min(keep), Max(keep))

\* First index k >= j at which the run of whitespace (\s*), of digits (\d+),
\* of characters other than line breaks ([^\n\r]+) ends.
SpaceEnd(s, j) ==
    Min({k \in j..(Len(s) + 1) : k > Len(s) \/ ~IsSpace(Char(s, k))})
DigitEnd(s, j) ==
    Min({k \in j..(Len(s) + 1) : k > Len(s) \/ ~IsDigit(Char(s, k))})
LineEnd(s, j) ==
    Min({k \in j..(Len(s) + 1) : k > Len(s) \/ IsNewline(Char(s, k))})

\* Where the literal lit stands in s, compared case-insensitively (/i).
LitHits(s, lit) ==
    LET low == ToLowerCase(s)
        l == ToLowerCase(lit)
    IN  {i \in 1..(Len(s) - Len(lit) + 1) : SubSeq(low, i, i + Len(lit) - 1) = l}

(***************************************************************************)
(* String.prototype.match for the regular expressions of the text pass:    *)
(* the capture group of the leftmost match, or absent.  Each ...After      *)
(* operator matches the part of the expression that follows the literal,   *)
(* from index j on.                                                        *)
(***************************************************************************)
\* \s*(\d+) when minSpaces = 0, \s+(\d+) when minSpaces = 1
DigitsAfter(s, j, minSpaces) ==
    LET k == SpaceEnd(s, j)
        m == DigitEnd(s, k)
    IN  IF k - j >= minSpaces /\ m > k THEN Some(SubSeq(s, k, m - 1)) ELSE None

\* /<lit>\s*(\d+)/i and /<lit>\s+(\d+)/i
MatchDigits(s, lit, minSpaces) ==
    LET hits == {i \in LitHits(s, lit) : DigitsAfter(s, i + Len(lit), minSpaces) /= None}
    IN  IF hits = {} THEN None ELSE DigitsAfter(s, Min(hits) + Len(lit), minSpaces)

\* \s*([^\n\r]+) : \s* is greedy and gives characters back only when nothing
\* is left for the capture group.
RestOfLineAfter(s, j) ==
    LET k == SpaceEnd(s, j)
        back == {p \in j..Len(s) : NotNewline(Char(s, p))}
    IN  IF k <= Len(s) THEN Some(SubSeq(s, k, LineEnd(s, k) - 1))
        ELSE IF back /= {} THEN Some(Char(s, Max(back)))
        ELSE None

\* /<lit>\s*([^\n\r]+)/i
MatchRestOfLine(s, lit) ==
    LET hits == {i \in LitHits(s, lit) : RestOfLineAfter(s, i + Len(lit)) /= None}
    IN  IF hits = {} THEN None ELSE RestOfLineAfter(s, Min(hits) + Len(lit))

AllDigits(s, from, to) ==
    to <= Len(s) /\ \A p \in from..to : IsDigit(Char(s, p))

\* \s*(\([0-9]{3}\)\s*[0-9]{3}-[0-9]{4})
PhoneAfter(s, j) ==
    LET k == SpaceEnd(s, j)
        n == SpaceEnd(s, k + 5)
    IN  IF /\ k + 4 <= Len(s)
           /\ Char(s, k) = "("
           /\ AllDigits(s, k + 1, k + 3)
           /\ Char(s, k + 4) = ")"
           /\ AllDigits(s, n, n + 2)
           /\ n + 3 <= Len(s)
           /\ Char(s, n + 3) = "-"
           /\ AllDigits(s, n + 4, n + 7)
        THEN Some(SubSeq(s, k, n + 7))
        ELSE None

\* /Phone:\s*(\([0-9]{3}\)\s*[0-9]{3}-[0-9]{4})/i
MatchPhone(s) ==
    LET hits == {i \in LitHits(s, "Phone:") : PhoneAfter(s, i + 6) /= None}
    IN  IF hits = {} THEN None ELSE PhoneAfter(s, Min(hits) + 6)

\* a || b on match results: a match array is always truthy
OrElse(a, b) == IF a /= None THEN a ELSE b

\* capture.trim() of a match, absent when there was no match
Trimmed(opt) == IF opt = None THEN None ELSE Some(Trim(opt[1]))

(***************************************************************************)
(* Field extraction: the page script of getWardUsingPuppeteer, lines       *)
(* 118-188.  The rendered document is its visible text (bodyText) and its  *)
(* tables, each a sequence of rows, each row the innerText of its cells.   *)
(***************************************************************************)
PreviewLen == 1000

TextPass(bodyText) ==
    [ward          |-> OrElse(MatchDigits(bodyText, "Ward:", 0),
                              MatchDigits(bodyText, "Ward", 1)),
     alderperson   |-> Trimmed(OrElse(MatchRestOfLine(bodyText, "Alderman:"),
                               OrElse(MatchRestOfLine(bodyText, "Alderwoman:"),
                                      MatchRestOfLine(bodyText, "Alderperson:")))),
     officeAddress |-> Trimmed(MatchRestOfLine(bodyText, "Office Address:")),
     wardPhone     |-> Trimmed(OrElse(MatchRestOfLine(bodyText, "Ward Phone:"),
                                      MatchPhone(bodyText)))]

\* A faulty Classify: the alderman rule is tried before the ward rule.
Classify_AldermanFirst(label) ==
    IF Includes(label, "alderman") \/ Includes(label, "alderwoman")
    THEN "alderperson"
    ELSE IF Includes(label, "ward") /\ ~Includes(label, "phone") /\ ~Includes(label, "address")
    THEN "ward"
    ELSE IF Includes(label, "office") /\ Includes(label, "address")
    THEN "officeAddress"
    ELSE IF Includes(label, "phone")
    THEN "wardPhone"
    ELSE "none"

\* The if / else-if chain on the lowercased label of a row.
Classify(label) ==
    IF Includes(label, "ward") /\ ~Includes(label, "phone") /\ ~Includes(label, "address")
    THEN "ward"
    ELSE IF Includes(label, "alderman") \/ Includes(label, "alderwoman")
    THEN "alderperson"
    ELSE IF Includes(label, "office") /\ Includes(label, "address")
    THEN "officeAddress"
    ELSE IF Includes(label, "phone")
    THEN "wardPhone"
    ELSE "none"

\* A faulty ApplyRow: a row only fills a field the text pass left absent.
ApplyRow_KeepsText(fields, cells) ==
    IF Len(cells) >= 2
    THEN LET label == ToLowerCase(Trim(cells[1]))
             value == Trim(cells[2])
             field == Classify(label)
         IN  IF field = "none" \/ fields[field] /= None THEN fields
             ELSE [fields EXCEPT ![field] = Some(value)]
    ELSE fields

\* The body of rows.forEach: one row's effect on the four variables.
ApplyRow(fields, cells) ==
    IF Len(cells) >= 2
    THEN LET label == ToLowerCase(Trim(cells[1]))
             value == Trim(cells[2])
             field == Classify(label)
         IN  IF field = "none" THEN fields ELSE [fields EXCEPT ![field] = Some(value)]
    ELSE fields

RECURSIVE ApplyRows(_, _)
ApplyRows(fields, rows) ==
    IF rows = <<>> THEN fields
    ELSE ApplyRows(ApplyRow(fields, Head(rows)), Tail(rows))

\* tables.forEach: every table in document order, every row in table order.
RECURSIVE TablePass(_, _)
TablePass(fields, tables) ==
    IF tables = <<>> THEN fields
    ELSE TablePass(ApplyRows(fields, Head(tables)), Tail(tables))

\* A faulty Found: only the ward counts.
Found_WardOnly(fields) == fields.ward /= None

Found(fields) == fields.ward /= None \/ fields.alderperson /= None

\* The record the page script returns.
ExtractResults(doc) ==
    LET fields == TablePass(TextPass(doc.bodyText), doc.tables)
    IN  [ward          |-> fields.ward,
         alderperson   |-> fields.alderperson,
         officeAddress |-> fields.officeAddress,
         wardPhone     |-> fields.wardPhone,
         bodyText      |-> SubSeq(doc.bodyText, 1, Min({PreviewLen, Len(doc.bodyText)})),
         found         |-> Found(fields)]

\* The predicate waitForFunction polls.
ResultsMarker(bodyText) ==
    LET text == ToLowerCase(bodyText)
    IN  Includes(text, "ward") \/ Includes(text, "alderman") \/ Includes(text, "alderwoman")

(***************************************************************************)
(* Field location: the page scripts at lines 42-59 and 77-94.              *)
(***************************************************************************)
AddressSelectors ==
    << "input[type=\"text\"]",
       "input[name*=\"address\"]",
       "input#address",
       "input[placeholder*=\"address\"]",
       "input[placeholder*=\"Address\"]" >>

\* The selector list page.waitForSelector is given.
WaitSelectors ==
    { "input[type=\"text\"]", "input[name*=\"address\"]", "input#address" }

SubmitSelectors ==
    << "input[type=\"submit\"]",
       "button[type=\"submit\"]",
       "input[value*=\"Search\"]",
       "input[value*=\"Find\"]",
       "button:contains(\"Search\")",
       "button:contains(\"Find\")" >>

Range(seq) == {seq[i] : i \in 1..Len(seq)}

\* :contains() is a jQuery extension, not a CSS pseudo-class: the selectors of
\* lines 83-84 are not valid selectors for document.querySelector.
ValidSelector(selector) == ~Includes(selector, ":contains(")

\* document.querySelector(selector) on a document in which the selectors of
\* `matching` each match an element: an element, null, or a SyntaxError.
QuerySelector(matching, selector) ==
    IF ~ValidSelector(selector) THEN "SyntaxError"
    ELSE IF selector \in matching THEN "element"
    ELSE "null"

\* for (const selector of selectors) { ... } from the i-th selector on.
RECURSIVE ProbeFrom(_, _, _)
ProbeFrom(selectors, i, matching) ==
    IF i > Len(selectors) THEN [threw |-> FALSE, value |-> None]
    ELSE LET element == QuerySelector(matching, selectors[i])
         IN  IF element = "SyntaxError" THEN [threw |-> TRUE, value |-> None]
             ELSE IF element = "element" THEN [threw |-> FALSE, value |-> Some(selectors[i])]
             ELSE ProbeFrom(selectors, i + 1, matching)

Probe(selectors, matching) == ProbeFrom(selectors, 1, matching)

(***************************************************************************)
(* The world outside the program: lookup requests, the pages the ward site *)
(* renders, the records of the data portal.                                *)
(***************************************************************************)
Calls == {1}

RequestAddresses == {None, Some(""), Some("121 N LaSalle St")}

\* The selectors of the two lists that can match an element of a document.
Matchable ==
    {sel \in Range(AddressSelectors) \cup Range(SubmitSelectors) : ValidSelector(sel)}

BlankPage == [matching |-> {}, bodyText |-> "", tables |-> <<>>]

\* The form page: which selectors match is up to the site.
FormPages == {[matching |-> m, bodyText |-> "", tables |-> <<>>] : m \in SUBSET Matchable}

\* What the site may render after submission.  Selectors are not probed any
\* more once the form is submitted, so `matching` is no longer tracked.
ServedDocs ==
    { [bodyText |-> "Loading", tables |-> <<>>],
      [bodyText |-> "Ward: 5", tables |-> <<>>],
      [bodyText |-> "Ward: 27\nAlderman: Jane Doe\nOffice Address: 9 Elm\nWard Phone: 555",
       tables |-> <<>>],
      [bodyText |-> "Alderman: Jane Doe", tables |-> <<>>],
      [bodyText |-> "Result", tables |-> << << <<"Ward", "5">> >> >>],
      [bodyText |-> "Ward: 27", tables |-> << << <<"Alderman", "Jane Doe">> >> >>],
      [bodyText |-> "Ward: 27", tables |-> << << <<"Ward", "">> >> >>],
      [bodyText |-> "Result", tables |-> << << <<"Phone", "555">>, <<"Name">> >> >>] }

ResultPages ==
    {[matching |-> {}, bodyText |-> d.bodyText, tables |-> d.tables] : d \in ServedDocs}

\* How often the live page may change under the pipeline between two steps.
MaxPageChanges == 1

VARIABLES
    \* POST /api/lookup, one request per call
    hpc,                      \* control point of the handler
    address,                  \* req.body.address
    ward,
    alderpersonFromScrape,
    officeAddressFromScrape,
    wardPhoneFromScrape,
    queries,                  \* the ward parameters of the axios.get calls made
    responses,                \* the HTTP responses sent
    abandoned,                \* whether the client has closed the connection
    \* getWardUsingPuppeteer
    pc,                       \* control point of the pipeline
    browser,                  \* "undefined", "open", "closed", "closeFailed"
    page,                     \* the live document of the session
    changes,                  \* page changes so far
    addressSelector,
    submitSelector,
    waitError,                \* whether catch (waitError) ran
    results,
    pending,                  \* completion of the try block
    outcome,                  \* completion of the call, as its caller gets it
    events                    \* browser operations invoked, and the delivery

handlerVars ==
    <<hpc, address, ward, alderpersonFromScrape, officeAddressFromScrape,
      wardPhoneFromScrape, queries, responses, abandoned>>
scrapeLocals == <<addressSelector, submitSelector, waitError, results>>
pipelineVars == <<pc, browser, page, changes, scrapeLocals, pending, outcome, events>>
vars == <<handlerVars, pipelineVars>>

Set(f, c, v) == [f EXCEPT ![c] = v]
Log(c, e) == events' = [events EXCEPT ![c] = Append(@, e)]

NoCompletion == [kind |-> "none", error |-> "", value |-> None]
Thrown(err) == [kind |-> "throw", error |-> err, value |-> None]
Returned(v) == [kind |-> "return", error |-> "", value |-> Some(v)]

Init ==
    /\ hpc = [c \in Calls |-> "idle"]
    /\ address = [c \in Calls |-> None]
    /\ ward = [c \in Calls |-> None]
    /\ alderpersonFromScrape = [c \in Calls |-> None]
    /\ officeAddressFromScrape = [c \in Calls |-> None]
    /\ wardPhoneFromScrape = [c \in Calls |-> None]
    /\ queries = [c \in Calls |-> <<>>]
    /\ responses = [c \in Calls |-> <<>>]
    /\ abandoned = [c \in Calls |-> FALSE]
    /\ pc = [c \in Calls |-> "idle"]
    /\ browser = [c \in Calls |-> "undefined"]
    /\ page = [c \in Calls |-> BlankPage]
    /\ changes = [c \in Calls |-> 0]
    /\ addressSelector = [c \in Calls |-> None]
    /\ submitSelector = [c \in Calls |-> None]
    /\ waitError = [c \in Calls |-> FALSE]
    /\ results = [c \in Calls |-> None]
    /\ pending = [c \in Calls |-> NoCompletion]
    /\ outcome = [c \in Calls |-> NoCompletion]
    /\ events = [c \in Calls |-> <<>>]

(***************************************************************************)
(* getWardUsingPuppeteer, lines 15-211.  pc is the await the call is       *)
(* suspended at; every browser operation may also fail (a session fault).  *)
(***************************************************************************)
Goes(c, to) == pc' = Set(pc, c, to) /\ UNCHANGED pending
\* A throw inside the try block: control passes to catch (error), line 203.
Throws(c, err) == pc' = Set(pc, c, "catch") /\ pending' = Set(pending, c, Thrown(err))

\* A faulty Launch: browser is one variable of the module, which every
\* launch assigns, instead of a local of the invocation.
Launch_Shared(c) ==
    /\ pc[c] = "launch"
    /\ Log(c, "launch")
    /\ \/ browser' = [d \in DOMAIN browser |-> "open"] /\ Goes(c, "newPage")
       \/ Throws(c, "SessionFault") /\ UNCHANGED browser
    /\ UNCHANGED <<handlerVars, page, changes, scrapeLocals, outcome>>

\* browser = await puppeteer.launch(...)
Launch(c) ==
    /\ pc[c] = "launch"
    /\ Log(c, "launch")
    /\ \/ browser' = Set(browser, c, "open") /\ Goes(c, "newPage")
       \/ Throws(c, "SessionFault") /\ UNCHANGED browser
    /\ UNCHANGED <<handlerVars, page, changes, scrapeLocals, outcome>>

\* browser.newPage(), page.setUserAgent(...)
NewPage(c) ==
    /\ pc[c] = "newPage"
    /\ Log(c, "newPage")
    /\ Goes(c, "goto") \/ Throws(c, "SessionFault")
    /\ UNCHANGED <<handlerVars, browser, page, changes, scrapeLocals, outcome>>

\* page.goto(url, {waitUntil: 'networkidle2', timeout: 30000})
Goto(c) ==
    /\ pc[c] = "goto"
    /\ Log(c, "goto")
    /\ \/ /\ \E p \in FormPages : page' = Set(page, c, p)
          /\ Goes(c, "waitForSelector")
       \/ /\ \E err \in {"NavigationTimeout", "SessionFault"} : Throws(c, err)
          /\ UNCHANGED page
    /\ UNCHANGED <<handlerVars, browser, changes, scrapeLocals, outcome>>

\* page.waitForSelector('input[type="text"], ...', {timeout: 10000})
WaitForSelector(c) ==
    /\ pc[c] = "waitForSelector"
    /\ Log(c, "waitForSelector")
    /\ \/ page[c].matching \cap WaitSelectors /= {} /\ Goes(c, "probeAddress")
       \/ page[c].matching \cap WaitSelectors = {} /\ Throws(c, "ElementWaitTimeout")
       \/ Throws(c, "SessionFault")
    /\ UNCHANGED <<handlerVars, browser, page, changes, scrapeLocals, outcome>>

\* addressSelector = await page.evaluate(...); if (!addressSelector) throw
ProbeAddress(c) ==
    /\ pc[c] = "probeAddress"
    /\ Log(c, "evaluate:address")
    /\ \/ LET found == Probe(AddressSelectors, page[c].matching)
          IN  IF found.threw
              THEN Throws(c, "SyntaxError") /\ UNCHANGED addressSelector
              ELSE /\ addressSelector' = Set(addressSelector, c, found.value)
                   /\ IF found.value = None
                      THEN Throws(c, "AddressFieldNotFound")
                      ELSE Goes(c, "type")
       \/ Throws(c, "SessionFault") /\ UNCHANGED addressSelector
    /\ UNCHANGED <<handlerVars, browser, page, changes, submitSelector, waitError,
                   results, outcome>>

\* page.click(addressSelector), select all, page.type(addressSelector, address)
TypeAddress(c) ==
    /\ pc[c] = "type"
    /\ Log(c, "type")
    /\ Goes(c, "probeSubmit") \/ Throws(c, "SessionFault")
    /\ UNCHANGED <<handlerVars, browser, page, changes, scrapeLocals, outcome>>

\* submitSelector = await page.evaluate(...)
ProbeSubmit(c) ==
    /\ pc[c] = "probeSubmit"
    /\ Log(c, "evaluate:submit")
    /\ \/ LET found == Probe(SubmitSelectors, page[c].matching)
          IN  IF found.threw
              THEN Throws(c, "SyntaxError") /\ UNCHANGED submitSelector
              ELSE /\ submitSelector' = Set(submitSelector, c, found.value)
                   /\ Goes(c, "submit")
       \/ Throws(c, "SessionFault") /\ UNCHANGED submitSelector
    /\ UNCHANGED <<handlerVars, browser, page, changes, addressSelector, waitError,
                   results, outcome>>

\* if (!submitSelector) page.keyboard.press('Enter') else page.click(submitSelector)
SubmitEvent(selector) == IF selector = None THEN "press:Enter" ELSE "click:submit"

Submit(c) ==
    /\ pc[c] = "submit"
    /\ Log(c, SubmitEvent(submitSelector[c]))
    /\ \/ /\ \E p \in ResultPages : page' = Set(page, c, p)
          /\ Goes(c, "waitForFunction")
       \/ Throws(c, "SessionFault") /\ UNCHANGED page
    /\ UNCHANGED <<handlerVars, browser, changes, scrapeLocals, outcome>>

\* A faulty WaitForFunction: the wait has no timeout and no failure, it ends
\* only when the marker shows.
WaitForFunction_NoTimeout(c) ==
    /\ pc[c] = "waitForFunction"
    /\ Log(c, "waitForFunction")
    /\ ResultsMarker(page[c].bodyText)
    /\ Goes(c, "extract")
    /\ UNCHANGED <<handlerVars, browser, page, changes, scrapeLocals, outcome>>

\* try { await page.waitForFunction(..., {timeout: 15000}) } catch (waitError) {}
WaitForFunction(c) ==
    /\ pc[c] = "waitForFunction"
    /\ Log(c, "waitForFunction")
    /\ \/ ResultsMarker(page[c].bodyText) /\ UNCHANGED waitError
       \/ ~ResultsMarker(page[c].bodyText) /\ waitError' = Set(waitError, c, TRUE)
       \/ waitError' = Set(waitError, c, TRUE)
    /\ Goes(c, "extract")
    /\ UNCHANGED <<handlerVars, browser, page, changes, addressSelector, submitSelector,
                   results, outcome>>

\* results = await page.evaluate(...)
Extract(c) ==
    /\ pc[c] = "extract"
    /\ Log(c, "evaluate:results")
    /\ \/ Throws(c, "SessionFault") /\ UNCHANGED results
       \/ results' = Set(results, c, Some(ExtractResults(page[c]))) /\ Goes(c, "check")
    /\ UNCHANGED <<handlerVars, browser, page, changes, addressSelector, submitSelector,
                   waitError, outcome>>

\* if (results.ward) return {...} else throw new Error('No ward information ...')
ResultCheck(res) ==
    IF Truthy(res.ward)
    THEN Returned([ward          |-> res.ward,
                   alderperson   |-> res.alderperson,
                   officeAddress |-> res.officeAddress,
                   wardPhone     |-> res.wardPhone])
    ELSE Thrown("NoWardInformation")

CheckResults(c) ==
    /\ pc[c] = "check"
    /\ pending' = Set(pending, c, ResultCheck(results[c][1]))
    /\ pc' = Set(pc, c, IF pending'[c].kind = "throw" THEN "catch" ELSE "finally")
    /\ UNCHANGED <<handlerVars, browser, page, changes, scrapeLocals, outcome, events>>

\* A faulty Catch: the catch block closes the browser as well.
Catch_ClosesToo(c) ==
    /\ pc[c] = "catch"
    /\ Goes(c, "finally")
    /\ IF browser[c] /= "undefined" THEN Log(c, "close") ELSE UNCHANGED events
    /\ UNCHANGED <<handlerVars, browser, page, changes, scrapeLocals, outcome>>

\* catch (error) { console.error(...); throw error; }
Catch(c) ==
    /\ pc[c] = "catch"
    /\ Goes(c, "finally")
    /\ UNCHANGED <<handlerVars, browser, page, changes, scrapeLocals, outcome, events>>

\* A faulty Finally: the browser is never closed.
Finally_NoClose(c) ==
    /\ pc[c] = "finally"
    /\ outcome' = Set(outcome, c, pending[c])
    /\ pc' = Set(pc, c, "done")
    /\ UNCHANGED <<handlerVars, browser, page, changes, scrapeLocals, pending, events>>

\* finally { if (browser) { await browser.close(); } }
\* A rejection of browser.close() completes the finally block abruptly and
\* so becomes the completion of the whole call.
Finally(c) ==
    /\ pc[c] = "finally"
    /\ IF browser[c] /= "undefined"
       THEN /\ Log(c, "close")
            /\ \/ /\ browser' = Set(browser, c, "closed")
                  /\ outcome' = Set(outcome, c, pending[c])
               \/ /\ browser' = Set(browser, c, "closeFailed")
                  /\ outcome' = Set(outcome, c, Thrown("CloseFailed"))
       ELSE /\ outcome' = Set(outcome, c, pending[c])
            /\ UNCHANGED <<browser, events>>
    /\ pc' = Set(pc, c, "done")
    /\ UNCHANGED <<handlerVars, page, changes, scrapeLocals, pending>>

\* The site changes the live document while the session is open: an element
\* matching one selector appears or disappears on the form page, or the
\* results view re-renders.
PageChange(c) ==
    /\ browser[c] = "open"
    /\ changes[c] < MaxPageChanges
    /\ \/ /\ pc[c] \in {"waitForSelector", "probeAddress", "type", "probeSubmit", "submit"}
          /\ \E sel \in Matchable :
                page' = Set(page, c,
                            [page[c] EXCEPT !.matching =
                                IF sel \in @ THEN @ \ {sel} ELSE @ \cup {sel}])
       \/ /\ pc[c] \in {"waitForFunction", "extract"}
          /\ \E p \in ResultPages \ {page[c]} : page' = Set(page, c, p)
    /\ changes' = Set(changes, c, changes[c] + 1)
    /\ UNCHANGED <<handlerVars, pc, browser, scrapeLocals, pending, outcome, events>>

(***************************************************************************)
(* POST /api/lookup, lines 223-327.                                        *)
(***************************************************************************)
\* JavaScript values of the handler: a type tag and, for strings, the text.
Undefined == [t |-> "undefined", v |-> ""]
Null == [t |-> "null", v |-> ""]
Str(x) == [t |-> "string", v |-> x]
Obj == [t |-> "object", v |-> ""]
JsTruthy(x) == x.t = "object" \/ (x.t = "string" /\ x.v /= "")
\* x || y
Or(x, y) == IF JsTruthy(x) THEN x ELSE y
\* A value of the scrape (string or null) as a JavaScript value.
FromScrape(opt) == IF opt = None THEN Null ELSE Str(opt[1])

\* alderpersonResponse.data: undefined, or an array of portal records.
NoRecord ==
    [alderman |-> Undefined, alderperson |-> Undefined, name |-> Undefined,
     address |-> Undefined, phone |-> Undefined, email |-> Undefined,
     website |-> Undefined]
PortalRecords ==
    { NoRecord,
      [NoRecord EXCEPT !.alderman = Str("Jane Doe"), !.address = Str("9 Elm"),
                       !.phone = Str("555"), !.website = Obj],
      [NoRecord EXCEPT !.name = Str("J Doe"), !.website = Obj] }
EmptyData == {None, Some(<<>>)}
FoundData == {Some(<<r>>) : r \in PortalRecords}

Respond(c, status, body) ==
    responses' = Set(responses, c, Append(responses[c], [status |-> status, body |-> body]))

ErrorBody(message) == [success |-> FALSE, error |-> message]

AddressRequired == "Address is required"
ScrapeFailed ==
    "Could not find ward information for this address. Please verify the address is within Chicago city limits and try a more specific format."
WardUndetermined ==
    "Could not determine ward for this address. Please verify the address is within Chicago city limits."
NoAlderpersonData(w) == "No alderperson data found for Ward " \o w \o "."
LookupFailed ==
    "An error occurred while looking up your alderperson. Please try again."

\* A faulty Lookup: the address is not checked.
Lookup_NoCheck(c) ==
    /\ hpc[c] = "idle"
    /\ \E a \in RequestAddresses : address' = Set(address, c, a)
    /\ hpc' = Set(hpc, c, "scrape")
    /\ pc' = Set(pc, c, "launch")
    /\ UNCHANGED <<abandoned, ward, alderpersonFromScrape, officeAddressFromScrape,
                   wardPhoneFromScrape, queries, responses, browser, page, changes,
                   scrapeLocals, pending, outcome, events>>

\* const { address } = req.body; if (!address) return 400; otherwise the call
\* of getWardUsingPuppeteer, which runs up to its first await.
Lookup(c) ==
    /\ hpc[c] = "idle"
    /\ \E a \in RequestAddresses :
          /\ address' = Set(address, c, a)
          /\ IF ~Truthy(a)
             THEN /\ Respond(c, 400, ErrorBody(AddressRequired))
                  /\ hpc' = Set(hpc, c, "done")
                  /\ UNCHANGED pc
             ELSE /\ hpc' = Set(hpc, c, "scrape")
                  /\ pc' = Set(pc, c, "launch")
                  /\ UNCHANGED responses
    /\ UNCHANGED <<abandoned, ward, alderpersonFromScrape, officeAddressFromScrape,
                   wardPhoneFromScrape, queries, browser, page, changes, scrapeLocals,
                   pending, outcome, events>>

\* scrapeResults = await getWardUsingPuppeteer(address) fulfilled, lines 243-263
ScrapeReturn(c) ==
    /\ hpc[c] = "scrape"
    /\ pc[c] = "done"
    /\ outcome[c].kind = "return"
    /\ Log(c, "deliver")
    /\ LET scrapeResults == outcome[c].value[1]
       IN  /\ ward' = Set(ward, c, scrapeResults.ward)
           /\ alderpersonFromScrape' = Set(alderpersonFromScrape, c, scrapeResults.alderperson)
           /\ officeAddressFromScrape' =
                  Set(officeAddressFromScrape, c, scrapeResults.officeAddress)
           /\ wardPhoneFromScrape' = Set(wardPhoneFromScrape, c, scrapeResults.wardPhone)
           /\ IF ~Truthy(scrapeResults.ward)
              THEN /\ Respond(c, 404, ErrorBody(WardUndetermined))
                   /\ hpc' = Set(hpc, c, "done")
              ELSE /\ hpc' = Set(hpc, c, "enrich")
                   /\ UNCHANGED responses
    /\ UNCHANGED <<abandoned, address, queries, pc, browser, page, changes, scrapeLocals, pending,
                   outcome>>

\* A faulty ScrapeCatch: the response carries the message of the error.
ScrapeCatch_EchoesError(c) ==
    /\ hpc[c] = "scrape"
    /\ pc[c] = "done"
    /\ outcome[c].kind = "throw"
    /\ Log(c, "deliver")
    /\ Respond(c, 404, ErrorBody(outcome[c].error))
    /\ hpc' = Set(hpc, c, "done")
    /\ UNCHANGED <<abandoned, address, ward, alderpersonFromScrape, officeAddressFromScrape,
                   wardPhoneFromScrape, queries, pc, browser, page, changes, scrapeLocals,
                   pending, outcome>>

\* A faulty ScrapeCatch: a failed scrape falls back on a default ward and the
\* handler goes on to the data portal.
ScrapeCatch_DefaultsWard(c) ==
    /\ hpc[c] = "scrape"
    /\ pc[c] = "done"
    /\ outcome[c].kind = "throw"
    /\ Log(c, "deliver")
    /\ ward' = Set(ward, c, Some("1"))
    /\ hpc' = Set(hpc, c, "enrich")
    /\ UNCHANGED <<abandoned, address, alderpersonFromScrape, officeAddressFromScrape,
                   wardPhoneFromScrape, queries, responses, pc, browser, page, changes,
                   scrapeLocals, pending, outcome>>

\* catch (scrapeError), lines 249-256
ScrapeCatch(c) ==
    /\ hpc[c] = "scrape"
    /\ pc[c] = "done"
    /\ outcome[c].kind = "throw"
    /\ Log(c, "deliver")
    /\ Respond(c, 404, ErrorBody(ScrapeFailed))
    /\ hpc' = Set(hpc, c, "done")
    /\ UNCHANGED <<abandoned, address, ward, alderpersonFromScrape, officeAddressFromScrape,
                   wardPhoneFromScrape, queries, pc, browser, page, changes, scrapeLocals,
                   pending, outcome>>

\* axios.get(portal, {params: {ward: ward}, timeout: 10000}) is issued
Query(c) == queries' = Set(queries, c, Append(queries[c], ward[c]))

\* axios.get rejects: the outer catch (error), lines 319-326
EnrichFails(c) ==
    /\ hpc[c] = "enrich"
    /\ Query(c)
    /\ Respond(c, 500, ErrorBody(LookupFailed))
    /\ hpc' = Set(hpc, c, "done")
    /\ UNCHANGED <<abandoned, address, ward, alderpersonFromScrape, officeAddressFromScrape,
                   wardPhoneFromScrape, pipelineVars>>

\* if (!alderpersonResponse.data || alderpersonResponse.data.length === 0)
EmptyEnrichmentBody(c) ==
    [success     |-> TRUE,
     alderperson |-> FromScrape(alderpersonFromScrape[c]),
     ward        |-> FromScrape(ward[c]),
     contact     |-> Str("Contact information not available"),
     address     |-> FromScrape(address[c]),
     wardOffice  |-> Null]

\* A faulty EnrichEmpty: the 200 response is not returned on, and the 404
\* that follows is sent as well.
EnrichEmpty_NoReturn(c) ==
    /\ hpc[c] = "enrich"
    /\ Query(c)
    /\ \E data \in EmptyData :
          responses' = Set(responses, c,
              responses[c] \o
              (IF Truthy(alderpersonFromScrape[c])
               THEN <<[status |-> 200, body |-> EmptyEnrichmentBody(c)]>> ELSE <<>>) \o
              <<[status |-> 404, body |-> ErrorBody(NoAlderpersonData(ward[c][1]))]>>)
    /\ hpc' = Set(hpc, c, "done")
    /\ UNCHANGED <<abandoned, address, ward, alderpersonFromScrape, officeAddressFromScrape,
                   wardPhoneFromScrape, pipelineVars>>

EnrichEmpty(c) ==
    /\ hpc[c] = "enrich"
    /\ Query(c)
    /\ \E data \in EmptyData :
          IF Truthy(alderpersonFromScrape[c])
          THEN Respond(c, 200, EmptyEnrichmentBody(c))
          ELSE Respond(c, 404, ErrorBody(NoAlderpersonData(ward[c][1])))
    /\ hpc' = Set(hpc, c, "done")
    /\ UNCHANGED <<abandoned, address, ward, alderpersonFromScrape, officeAddressFromScrape,
                   wardPhoneFromScrape, pipelineVars>>

RECURSIVE Join(_, _)
Join(items, sep) ==
    IF items = <<>> THEN ""
    ELSE IF Len(items) = 1 THEN items[1]
    ELSE items[1] \o sep \o Join(Tail(items), sep)

\* if (x) contact.push(x) for address, phone, email, website
Contact(d) ==
    SelectSeq(<<d.address, d.phone, d.email, d.website>>, JsTruthy)

IsString(x) == x.t = "string"
TextOf(items) == [i \in 1..Len(items) |-> items[i].v]

\* const result = {...}, lines 306-314
ResultBody(c, d) ==
    [success     |-> TRUE,
     alderperson |-> Or(d.alderman, Or(d.alderperson, Or(d.name,
                        Or(FromScrape(alderpersonFromScrape[c]),
                           Str("Name not available"))))),
     ward        |-> FromScrape(ward[c]),
     contact     |-> IF Len(Contact(d)) > 0
                     THEN Str(Join(TextOf(SelectSeq(Contact(d), IsString)), " * "))
                     ELSE Str("Contact information not available"),
     address     |-> FromScrape(address[c]),
     wardOffice  |-> Or(FromScrape(officeAddressFromScrape[c]), Or(d.address, Null)),
     wardPhone   |-> Or(FromScrape(wardPhoneFromScrape[c]), Or(d.phone, Null))]

EnrichFound(c) ==
    /\ hpc[c] = "enrich"
    /\ Query(c)
    /\ \E data \in FoundData : Respond(c, 200, ResultBody(c, data[1][1]))
    /\ hpc' = Set(hpc, c, "done")
    /\ UNCHANGED <<abandoned, address, ward, alderpersonFromScrape, officeAddressFromScrape,
                   wardPhoneFromScrape, pipelineVars>>

(***************************************************************************)
(* The server: requests handled, each through one call of the pipeline.    *)
(***************************************************************************)
Next ==
    \E c \in Calls :
        \/ Lookup(c)
        \/ Launch(c)
        \/ NewPage(c)
        \/ Goto(c)
        \/ WaitForSelector(c)
        \/ ProbeAddress(c)
        \/ TypeAddress(c)
        \/ ProbeSubmit(c)
        \/ Submit(c)
        \/ WaitForFunction(c)
        \/ Extract(c)
        \/ CheckResults(c)
        \/ Catch(c)
        \/ Finally(c)
        \/ PageChange(c)
        \/ ScrapeReturn(c)
        \/ ScrapeCatch(c)
        \/ EnrichFails(c)
        \/ EnrichEmpty(c)
        \/ EnrichFound(c)

Spec == Init /\ [][Next]_vars

(***************************************************************************)
(* The extraction on its own: a call stands at results = page.evaluate(...) *)
(* and the live document is any document of the bounded universe below.    *)
(***************************************************************************)
\* Rows of all the tables of a document, at most.
MaxRows == 2

ExtractTexts ==
    { "",
      "Ward: 27",
      "Ward 5\nAlderman: Al \nPhone: (312) 744-3066",
      "Alderwoman: Jo\nOffice Address: 9 Elm\nWard Phone: 555" }

\* Rows as the cells' innerText: a label cell and a value cell, or a lone cell.
ExtractRows ==
    { <<"Ward", "27 ">>,
      <<" WARD NO", "">>,
      <<"Ward Phone", "555">>,
      <<"Ward Office Address", "9 Elm">>,
      <<"Alderman", "Al B">>,
      <<"Alderwoman", "">>,
      <<"Office Address", "1 Oak">>,
      <<"Phone", "">>,
      <<"Name", "x">>,
      <<"Ward">> }

RECURSIVE RowSeqs(_)
RowSeqs(n) ==
    IF n = 0 THEN {<<>>}
    ELSE {Append(rows, r) : rows \in RowSeqs(n - 1), r \in ExtractRows}

RECURSIVE Flatten(_)
Flatten(seqs) == IF seqs = <<>> THEN <<>> ELSE Head(seqs) \o Flatten(Tail(seqs))

\* The innerText of a table: cells separated by tabs, rows by line breaks.
TableText(rows) == Join([i \in 1..Len(rows) |-> Join(rows[i], "\t")], "\n")

\* A row of a table whose second cell holds a nested table of the rows
\* `inner`: row.querySelectorAll('td, th') gives its own two cells and then
\* the cells of the nested rows.
HostRow(inner) == <<"Details", TableText(inner)>> \o Flatten(inner)

\* A table that holds, in its first row, a nested table of all rows but the
\* last, and the last row as its own second row.  querySelectorAll('table')
\* gives the outer table and then the nested one; the outer table's
\* querySelectorAll('tr') gives the rows inside it at any depth, in document
\* order: the nested table's rows are among them.
NestedTables(rows) ==
    LET inner == SubSeq(rows, 1, Len(rows) - 1)
    IN  << <<HostRow(inner)>> \o rows, inner >>

\* The rows in one table, or each row in a table of its own, or a table
\* nested in another.
Layouts(rows) ==
    IF rows = <<>> THEN {<<>>}
    ELSE {<<rows>>, [i \in 1..Len(rows) |-> <<rows[i]>>]}
         \cup (IF Len(rows) >= 2 THEN {NestedTables(rows)} ELSE {})

\* Labels made of the words the if / else-if chain looks for, any of them
\* together, as a site writes them: capitalised, with space around.
Keywords == <<"Ward", "Alderman", "Alderwoman", "Office", "Address", "Phone">>

LabelOf(words) ==
    LET Chosen(w) == w \in words
    IN  " " \o Join(SelectSeq(Keywords, Chosen), " ") \o " "

\* One row: such a label and a value cell, or the label cell alone.
ClassifyRows ==
    UNION { { <<LabelOf(words), " 7 ">>, <<LabelOf(words), "">>, <<LabelOf(words)>> } :
            words \in SUBSET Range(Keywords) }

\* Documents without text whose one table has one such row.
ClassifyPages ==
    {[matching |-> {}, bodyText |-> "", tables |-> << <<row>> >>] : row \in ClassifyRows}

ExtractPages ==
    {[matching |-> {}, bodyText |-> t, tables |-> tb] :
        t \in ExtractTexts,
        tb \in UNION {Layouts(rows) : rows \in UNION {RowSeqs(n) : n \in 0..MaxRows}}}
    \cup ClassifyPages

InitExtract ==
    /\ hpc = [c \in Calls |-> "scrape"]
    /\ address = [c \in Calls |-> Some("121 N LaSalle St")]
    /\ ward = [c \in Calls |-> None]
    /\ alderpersonFromScrape = [c \in Calls |-> None]
    /\ officeAddressFromScrape = [c \in Calls |-> None]
    /\ wardPhoneFromScrape = [c \in Calls |-> None]
    /\ queries = [c \in Calls |-> <<>>]
    /\ responses = [c \in Calls |-> <<>>]
    /\ abandoned = [c \in Calls |-> FALSE]
    /\ pc = [c \in Calls |-> "extract"]
    /\ browser = [c \in Calls |-> "open"]
    /\ page \in [Calls -> ExtractPages]
    /\ changes = [c \in Calls |-> 0]
    /\ addressSelector = [c \in Calls |-> Some(AddressSelectors[1])]
    /\ submitSelector = [c \in Calls |-> Some(SubmitSelectors[1])]
    /\ waitError = [c \in Calls |-> FALSE]
    /\ results = [c \in Calls |-> None]
    /\ pending = [c \in Calls |-> NoCompletion]
    /\ outcome = [c \in Calls |-> NoCompletion]
    /\ events = [c \in Calls |->
                    <<"launch", "newPage", "goto", "waitForSelector", "evaluate:address",
                      "type", "evaluate:submit", "click:submit", "waitForFunction">>]

NextExtract == \E c \in Calls : Extract(c) \/ CheckResults(c)

SpecExtract == InitExtract /\ [][NextExtract]_vars

(***************************************************************************)
(* Concurrent lookups: two requests in flight at once.  Each invocation of *)
(* the handler and of getWardUsingPuppeteer has its own locals (the        *)
(* variables above, one value per call); the event loop interleaves the    *)
(* calls at their awaits, that is, between any two actions.                *)
(***************************************************************************)
Lookups == {1, 2}

\* A few documents of the site, for the specifications with more than one
\* call in flight or with progress to check: served by the navigation (the
\* first three) or after the submission (the others).
SamplePages ==
    { BlankPage,
      [matching |-> {SubmitSelectors[1]}, bodyText |-> "", tables |-> <<>>],
      [matching |-> {AddressSelectors[1], SubmitSelectors[1]}, bodyText |-> "", tables |-> <<>>],
      [matching |-> {}, bodyText |-> "Ward: 5", tables |-> <<>>],
      [matching |-> {}, bodyText |-> "Ward: 27", tables |-> << << <<"Alderman", "Jane Doe">> >> >>],
      [matching |-> {}, bodyText |-> "Loading", tables |-> <<>>] }

InitConcurrent ==
    /\ hpc = [c \in Lookups |-> "idle"]
    /\ address = [c \in Lookups |-> None]
    /\ ward = [c \in Lookups |-> None]
    /\ alderpersonFromScrape = [c \in Lookups |-> None]
    /\ officeAddressFromScrape = [c \in Lookups |-> None]
    /\ wardPhoneFromScrape = [c \in Lookups |-> None]
    /\ queries = [c \in Lookups |-> <<>>]
    /\ responses = [c \in Lookups |-> <<>>]
    /\ abandoned = [c \in Lookups |-> FALSE]
    /\ pc = [c \in Lookups |-> "idle"]
    /\ browser = [c \in Lookups |-> "undefined"]
    /\ page = [c \in Lookups |-> BlankPage]
    /\ changes = [c \in Lookups |-> 0]
    /\ addressSelector = [c \in Lookups |-> None]
    /\ submitSelector = [c \in Lookups |-> None]
    /\ waitError = [c \in Lookups |-> FALSE]
    /\ results = [c \in Lookups |-> None]
    /\ pending = [c \in Lookups |-> NoCompletion]
    /\ outcome = [c \in Lookups |-> NoCompletion]
    /\ events = [c \in Lookups |-> <<>>]

NextConcurrent ==
    \E c \in Lookups :
        \/ Lookup(c)
        \/ Launch(c)
        \/ NewPage(c)
        \/ Goto(c) /\ page'[c] \in SamplePages
        \/ WaitForSelector(c)
        \/ ProbeAddress(c)
        \/ TypeAddress(c)
        \/ ProbeSubmit(c)
        \/ Submit(c) /\ page'[c] \in SamplePages
        \/ WaitForFunction(c)
        \/ Extract(c)
        \/ CheckResults(c)
        \/ Catch(c)
        \/ Finally(c)
        \/ ScrapeReturn(c)
        \/ ScrapeCatch(c)
        \/ EnrichFails(c)
        \/ EnrichEmpty(c)
        \/ EnrichFound(c)

SpecConcurrent == InitConcurrent /\ [][NextConcurrent]_vars

(***************************************************************************)
(* Progress.  The client may close its connection while its request is in  *)
(* flight; the handler registers no listener for that, so nothing else     *)
(* changes.  Every operation on the browser settles (it completes, fails   *)
(* or times out), and the code between two awaits runs on: each step of    *)
(* the pipeline that can be taken is eventually taken.  Nothing is assumed *)
(* of the handler or of the data portal.                                   *)
(***************************************************************************)
Abandon(c) ==
    /\ hpc[c] \in {"scrape", "enrich"}
    /\ ~abandoned[c]
    /\ abandoned' = Set(abandoned, c, TRUE)
    /\ UNCHANGED <<hpc, address, ward, alderpersonFromScrape, officeAddressFromScrape,
                   wardPhoneFromScrape, queries, responses, pipelineVars>>

PipelineStep(c) ==
    \/ Launch(c)
    \/ NewPage(c)
    \/ Goto(c)
    \/ WaitForSelector(c)
    \/ ProbeAddress(c)
    \/ TypeAddress(c)
    \/ ProbeSubmit(c)
    \/ Submit(c)
    \/ WaitForFunction(c)
    \/ Extract(c)
    \/ CheckResults(c)
    \/ Catch(c)
    \/ Finally(c)

NextLive ==
    \E c \in Calls :
        \/ Lookup(c)
        \/ Launch(c)
        \/ NewPage(c)
        \/ Goto(c) /\ page'[c] \in SamplePages
        \/ WaitForSelector(c)
        \/ ProbeAddress(c)
        \/ TypeAddress(c)
        \/ ProbeSubmit(c)
        \/ Submit(c) /\ page'[c] \in SamplePages
        \/ WaitForFunction(c)
        \/ Extract(c)
        \/ CheckResults(c)
        \/ Catch(c)
        \/ Finally(c)
        \/ PageChange(c) /\ page'[c] \in SamplePages
        \/ ScrapeReturn(c)
        \/ ScrapeCatch(c)
        \/ EnrichFails(c)
        \/ EnrichEmpty(c)
        \/ EnrichFound(c)
        \/ Abandon(c)

SpecLive == Init /\ [][NextLive]_vars /\ \A c \in Calls : WF_vars(PipelineStep(c))

(***************************************************************************)
(* Properties.                                                             *)
(***************************************************************************)
Count(seq, e) == Cardinality({i \in DOMAIN seq : seq[i] = e})
Has(seq, e) == Count(seq, e) > 0
Last(seq) == seq[Len(seq)]
Launched(c) == browser[c] /= "undefined"

\* C1: in every call that launched a browser session, browser.close() is
\* invoked exactly once by the time the call completes, however the try
\* block completed (return, or a throw at any stage), and never more than
\* once at any time.
C1_CloseExactlyOnce ==
    \A c \in Calls :
        /\ Count(events[c], "close") <= 1
        /\ (pc[c] = "done" /\ Launched(c)) => Count(events[c], "close") = 1
        /\ ~Launched(c) => Count(events[c], "close") = 0

\* A call whose extraction step failed has completed, the session closed once.
C1_Witness ==
    \E c \in Calls :
        /\ pc[c] = "done"
        /\ pending[c] = Thrown("SessionFault")
        /\ Has(events[c], "evaluate:results")
        /\ Count(events[c], "close") = 1

\* C2: a failure of browser.close() does not change the outcome of the call:
\* the completed call delivers the completion of its try block (the
\* ResolvedWard, or the original error).
C2_CloseFailureNotRaised ==
    \A c \in Calls : pc[c] = "done" => outcome[c] = pending[c]

\* C3: when the submit probe runs on a page on which no submit-control
\* selector matches, it does not raise: the call goes on to the submission
\* (the Enter key press), unless the session itself failed.
C3_EnterFallback ==
    [][\A c \in Calls :
          ( /\ pc[c] = "probeSubmit"
            /\ pc'[c] /= "probeSubmit"
            /\ page[c].matching \cap Range(SubmitSelectors) = {}
            /\ pending'[c] /= Thrown("SessionFault") )
          => ( /\ pc'[c] = "submit"
               /\ submitSelector'[c] = None
               /\ SubmitEvent(submitSelector'[c]) = "press:Enter" )]_vars

\* The failures the specification names ElementNotFound.
ElementNotFound == {"ElementWaitTimeout", "AddressFieldNotFound"}

\* C4: when the address input is not found (the 10 s wait timed out, or the
\* probe found no selector), the completed call fails with ElementNotFound,
\* has typed nothing, submitted nothing, waited for no result, extracted
\* nothing, and has invoked the session close.
C4_AddressInputMissing ==
    \A c \in Calls :
        (pc[c] = "done" /\ pending[c].kind = "throw" /\ pending[c].error \in ElementNotFound)
        => /\ outcome[c].kind = "throw"
           /\ outcome[c].error \in ElementNotFound
           /\ \A e \in {"type", "evaluate:submit", "press:Enter", "click:submit",
                        "waitForFunction", "evaluate:results"} : ~Has(events[c], e)
           /\ Count(events[c], "close") = 1

\* The first selector of the list, in list order, that matches an element.
FirstMatch(selectors, matching) ==
    LET hits == {i \in 1..Len(selectors) : selectors[i] \in matching}
    IN  IF hits = {} THEN None ELSE Some(selectors[Min(hits)])

\* C5: each probe step (address list, submit list), run on any document,
\* returns the first selector of its list that matches an element, and
\* returns null exactly when none of the list matches.
C5_LocateFirstMatch ==
    [][\A c \in Calls :
          /\ ( /\ pc[c] = "probeAddress"
               /\ pc'[c] /= "probeAddress"
               /\ pending'[c] /= Thrown("SessionFault") )
             => /\ addressSelector'[c] = FirstMatch(AddressSelectors, page[c].matching)
                /\ pending'[c].error /= "SyntaxError"
          /\ ( /\ pc[c] = "probeSubmit"
               /\ pc'[c] /= "probeSubmit"
               /\ pending'[c] /= Thrown("SessionFault") )
             => /\ submitSelector'[c] = FirstMatch(SubmitSelectors, page[c].matching)
                /\ pc'[c] = "submit"]_vars

FieldNames == {"ward", "alderperson", "officeAddress", "wardPhone"}
NoFields ==
    [ward |-> None, alderperson |-> None, officeAddress |-> None, wardPhone |-> None]
\* What the table pass assigns by itself.
TableValues(doc) == TablePass(NoFields, doc.tables)

\* C6: for each of the four fields of an extraction, the value is the table
\* pass's value whenever the table pass produces one, and otherwise the
\* text pass's value.
C6_TableOverridesText ==
    \A c \in Calls :
        results[c] /= None =>
            LET text  == TextPass(page[c].bodyText)
                table == TableValues(page[c])
            IN  \A f \in FieldNames :
                    /\ table[f] /= None => results[c][1][f] = table[f]
                    /\ table[f] = None => results[c][1][f] = text[f]

\* An extraction in which both passes produced different values for a field.
C6_Witness ==
    \E c \in Calls :
        /\ results[c] /= None
        /\ \E f \in FieldNames :
              /\ TextPass(page[c].bodyText)[f] /= None
              /\ TableValues(page[c])[f] /= None
              /\ TextPass(page[c].bodyText)[f] /= TableValues(page[c])[f]

\* C7: in every extraction record, found is true exactly when ward or
\* alderperson is present; and the no-ward failure is raised by the caller
\* on a record the extractor returned, never by the extractor.
C7_FoundIffWardOrAlderperson ==
    \A c \in Calls :
        /\ results[c] /= None =>
              results[c][1].found =
                  (results[c][1].ward /= None \/ results[c][1].alderperson /= None)
        /\ pending[c] = Thrown("NoWardInformation") => results[c] /= None

\* An extraction with all four fields absent: found is false, and the caller
\* turned the record into the no-ward failure.
C7_Witness ==
    \E c \in Calls :
        /\ results[c] /= None
        /\ \A f \in FieldNames : results[c][1][f] = None
        /\ ~results[c][1].found
        /\ pending[c] = Thrown("NoWardInformation")

\* C8: a call whose results wait timed out still goes on to the extraction,
\* and when that extraction finds a ward the completed call returns it.
C8_WaitTimeoutNotFatal ==
    \A c \in Calls :
        /\ (waitError[c] /\ Last(events[c]) = "waitForFunction") => pc[c] = "extract"
        /\ (pc[c] = "done" /\ waitError[c] /\ results[c] /= None /\ Truthy(results[c][1].ward))
           => /\ outcome[c].kind = "return"
              /\ outcome[c].value[1].ward = results[c][1].ward

\* C9: a completed call whose extraction yielded found = false or no ward
\* fails with the no-ward error, and every value a call returns has a ward.
C9_NoWardIsFailure ==
    \A c \in Calls :
        /\ (pc[c] = "done" /\ results[c] /= None
              /\ (~results[c][1].found \/ results[c][1].ward = None))
           => outcome[c] = Thrown("NoWardInformation")
        /\ (pc[c] = "done" /\ outcome[c].kind = "return")
           => Truthy(outcome[c].value[1].ward)

\* Operations on the page of a session.
PageOps ==
    {"newPage", "goto", "waitForSelector", "evaluate:address", "type", "evaluate:submit",
     "press:Enter", "click:submit", "waitForFunction", "evaluate:results"}

\* C10: in the events of a call, the launch comes first, every page
\* operation (the extraction among them) comes after the launch and before
\* the close, and the delivery of the result or failure to the handler comes
\* last, after the close of the session if one was launched: the handler
\* never has the result of a call whose session is open.
C10_LifecycleOrder ==
    \A c \in Calls :
        LET e == events[c]
        IN  /\ e /= <<>> => e[1] = "launch"
            /\ \A i \in DOMAIN e :
                  /\ e[i] \in PageOps =>
                        /\ browser[c] /= "undefined"
                        /\ \A j \in 1..i : e[j] /= "close"
                  /\ e[i] = "close" => \A j \in DOMAIN e : j > i => e[j] = "deliver"
                  /\ e[i] = "deliver" =>
                        /\ i = Len(e)
                        /\ browser[c] /= "open"
                        /\ Launched(c) => e[i - 1] = "close"
            /\ hpc[c] \in {"enrich", "done"} /\ Has(e, "launch") => Has(e, "deliver")
            /\ ward[c] /= None => Has(e, "deliver")

\* A call that extracted, closed its session, and delivered a ward.
C10_Witness ==
    \E c \in Calls :
        /\ hpc[c] = "enrich"
        /\ ward[c] /= None
        /\ Has(events[c], "evaluate:results")
        /\ browser[c] = "closed"
        /\ Last(events[c]) = "deliver"

\* Everything one call holds: the locals of its handler invocation, the
\* locals of its pipeline invocation, its session and its events.
CallState(c) ==
    <<hpc[c], address[c], ward[c], alderpersonFromScrape[c], officeAddressFromScrape[c],
      wardPhoneFromScrape[c], queries[c], responses[c], abandoned[c], pc[c], browser[c], page[c],
      changes[c], addressSelector[c], submitSelector[c], waitError[c], results[c],
      pending[c], outcome[c], events[c]>>

\* C11: with two lookups interleaved in any way, each call launches at most
\* one session and a session exists only for the call that launched it; a
\* step of one call changes nothing the other call holds, and a session
\* changes state (opens, closes) only by the launch or the close of its own
\* call; and what a completed call delivers is determined by its own
\* session: its own document's extraction and its own close.
C11_Isolation ==
    /\ [](\A c \in Lookups :
            /\ Count(events[c], "launch") <= 1
            /\ Count(events[c], "close") <= 1
            /\ Launched(c) => Has(events[c], "launch")
            /\ Has(events[c], "close") => Launched(c)
            /\ results[c] /= None => results[c][1] = ExtractResults(page[c])
            /\ pending[c].kind = "return" =>
                  results[c] /= None /\ pending[c] = ResultCheck(results[c][1])
            /\ pc[c] = "done" =>
                  outcome[c] = IF browser[c] = "closeFailed"
                               THEN Thrown("CloseFailed") ELSE pending[c])
    /\ [][\A c \in Lookups :
            /\ CallState(c)' /= CallState(c) =>
                  \A d \in Lookups \ {c} : CallState(d)' = CallState(d)
            /\ browser'[c] /= browser[c] =>
                  \E op \in {"launch", "close"} : events'[c] = Append(events[c], op)]_vars

\* One call has completed with a ward and closed its session while the
\* other, started meanwhile, has its own session open on another document.
C11_Witness ==
    /\ pc[1] = "done"
    /\ browser[1] = "closed"
    /\ outcome[1].kind = "return"
    /\ browser[2] = "open"
    /\ results[2] /= None
    /\ results[2] /= results[1]

\* The response to a request whose pipeline call failed.
GenericFailure == [status |-> 404, body |-> ErrorBody(ScrapeFailed)]

\* C12: whatever made the pipeline call fail (navigation timeout, address
\* field not found, no ward found, a browser or session fault, at any step),
\* the request is answered with one and the same response, status and body:
\* the 404 with the could-not-find-ward message.  No request is answered
\* with the other no-ward message (the handler's own check of the ward).
C12_SingleGenericMessage ==
    \A c \in Calls :
        /\ (hpc[c] = "done" /\ (pending[c].kind = "throw" \/ outcome[c].kind = "throw"))
           => responses[c] = <<GenericFailure>>
        /\ \A i \in DOMAIN responses[c] :
              responses[c][i] /= [status |-> 404, body |-> ErrorBody(WardUndetermined)]

\* The extraction completed without a ward, the call failed with the no-ward
\* error, and the request got the generic response.
C12_Witness ==
    \E c \in Calls :
        /\ hpc[c] = "done"
        /\ outcome[c] = Thrown("NoWardInformation")
        /\ results[c] /= None
        /\ responses[c] = <<GenericFailure>>

\* The fields of a success body.
SuccessFields ==
    {"success", "alderperson", "ward", "contact", "address", "wardOffice", "wardPhone"}

\* C13: every response with status 200 has a body with success = true and
\* exactly the fields success, alderperson, ward, contact, address,
\* wardOffice and wardPhone, whether the enrichment returned records or
\* returned none and the scraped name was used.
C13_SuccessBodyFields ==
    \A c \in Calls :
        \A i \in DOMAIN responses[c] :
            responses[c][i].status = 200 =>
                /\ DOMAIN responses[c][i].body = SuccessFields
                /\ responses[c][i].body.success = TRUE

\* The awaits with a timeout of their own: navigation (30 s), the address
\* input (10 s), the results (15 s).
WaitPoints == {"goto", "waitForSelector", "waitForFunction"}

\* The call has completed: it returned or threw, and its session, if one was
\* launched, has had its close.
Terminated(c) ==
    /\ pc[c] = "done"
    /\ outcome[c].kind \in {"return", "throw"}
    /\ browser[c] /= "open"
    /\ Launched(c) => Has(events[c], "close")

\* C14: provided every browser operation settles, every started call of the
\* pipeline eventually completes with a result or a failure and with its
\* session closed, also when the client has gone away meanwhile, and no call
\* stays for ever at one of its three wait points.
C14_Termination ==
    \A c \in Calls :
        /\ (pc[c] = "launch") ~> Terminated(c)
        /\ (abandoned[c] /\ pc[c] /= "done") ~> Terminated(c)
        /\ \A w \in WaitPoints : (pc[c] = w) ~> (pc[c] /= w)

\* A call whose client went away while the results wait was pending, and
\* whose wait timed out, has completed and closed its session.
C14_Witness ==
    \E c \in Calls :
        /\ abandoned[c]
        /\ hpc[c] = "scrape"
        /\ waitError[c]
        /\ Terminated(c)
        /\ browser[c] = "closed"

\* C15: a request queries the data portal at most once, only after its
\* pipeline call has returned (and been delivered to the handler) with a
\* ward that is present and not empty, and with that very ward as the
\* parameter; a request whose pipeline call failed makes no query.
C15_EnrichAfterResolvedWard ==
    \A c \in Calls :
        /\ Len(queries[c]) <= 1
        /\ queries[c] /= <<>> =>
              /\ pc[c] = "done"
              /\ outcome[c].kind = "return"
              /\ Has(events[c], "deliver")
              /\ Truthy(outcome[c].value[1].ward)
              /\ queries[c][1] = outcome[c].value[1].ward
        /\ (outcome[c].kind = "throw" \/ pending[c].kind = "throw") => queries[c] = <<>>

\* A request whose pipeline call returned ward 27 has queried the portal
\* for ward 27.
C15_Witness ==
    \E c \in Calls :
        /\ outcome[c].kind = "return"
        /\ outcome[c].value[1].ward = Some("27")
        /\ queries[c] = <<Some("27")>>

\* The classification as the rule states it, on the set of words a label
\* is made of.
RuleField(words) ==
    IF "Ward" \in words /\ "Phone" \notin words /\ "Address" \notin words THEN "ward"
    ELSE IF "Alderman" \in words \/ "Alderwoman" \in words THEN "alderperson"
    ELSE IF "Office" \in words /\ "Address" \in words THEN "officeAddress"
    ELSE IF "Phone" \in words THEN "wardPhone"
    ELSE "none"

\* The words of a label of ClassifyRows.
WordsOf(label) == CHOOSE words \in SUBSET Range(Keywords) : LabelOf(words) = label

\* C16: the extraction of a document whose only content is one table row
\* assigns the row's trimmed value cell to the one field the rule gives for
\* the row's label (ward, unless phone or address is in it; else alderman or
\* alderwoman; else office and address together; else phone), and to no
\* other field; it assigns nothing when the row has one cell or its label
\* matches no rule.
C16_TableClassification ==
    \A c \in Calls :
        (results[c] /= None /\ page[c] \in ClassifyPages) =>
            LET row   == page[c].tables[1][1]
                field == IF Len(row) >= 2 THEN RuleField(WordsOf(row[1])) ELSE "none"
            IN  \A f \in FieldNames :
                    results[c][1][f] = IF f = field THEN Some(Trim(row[2])) ELSE None

\* A row whose label has both "alderman" and "phone" in it was extracted:
\* its value went to the alderperson, the phone stayed absent.
C16_Witness ==
    \E c \in Calls :
        /\ results[c] /= None
        /\ page[c].tables = << << <<LabelOf({"Alderman", "Phone"}), " 7 ">> >> >>
        /\ results[c][1].alderperson = Some("7")
        /\ results[c][1].wardPhone = None

\* C17: a request without an address, or with the empty string as address,
\* is answered 400 "Address is required" and that is all: the pipeline is
\* not called, no browser is launched, no browser operation is invoked, the
\* data portal is not queried.
C17_MissingAddress ==
    \A c \in Calls :
        (hpc[c] /= "idle" /\ ~Truthy(address[c])) =>
            /\ hpc[c] = "done"
            /\ responses[c] = <<[status |-> 400, body |-> ErrorBody(AddressRequired)]>>
            /\ pc[c] = "idle"
            /\ browser[c] = "undefined"
            /\ events[c] = <<>>
            /\ queries[c] = <<>>
            /\ ward[c] = None

\* A request with the empty string as address has been answered.
C17_Witness ==
    \E c \in Calls :
        /\ address[c] = Some("")
        /\ hpc[c] = "done"
        /\ Len(responses[c]) = 1
        /\ responses[c][1].status = 400

\* The awaits and blocks of the pipeline, each with a step that leaves it.
PipelinePoints ==
    {"launch", "newPage", "goto", "waitForSelector", "probeAddress", "type", "probeSubmit",
     "submit", "waitForFunction", "extract", "check", "catch", "finally"}

\* C18: a request never has more than one response; a request the handler
\* has finished with has exactly one, with the status of its path (400 for
\* a missing address, 404 for a failed pipeline call, 200, 404 or 500 after
\* a successful one); a request not finished has none yet and is not lost:
\* its pipeline call is at one of its steps or has settled, for the handler
\* to go on with its try or its catch; and a failure of the portal query
\* after a successful scrape is answered 500.
C18_ExactlyOneResponse ==
    /\ [](\A c \in Calls :
            /\ Len(responses[c]) <= 1
            /\ hpc[c] = "done" <=> Len(responses[c]) = 1
            /\ hpc[c] = "done" =>
                  LET status == responses[c][1].status
                  IN  /\ ~Truthy(address[c]) => status = 400
                      /\ (Truthy(address[c]) /\ outcome[c].kind = "throw") => status = 404
                      /\ (Truthy(address[c]) /\ outcome[c].kind = "return") =>
                            /\ status \in {200, 404, 500}
                            /\ queries[c] /= <<>>
            /\ hpc[c] = "scrape" =>
                  /\ pc[c] \in PipelinePoints \cup {"done"}
                  /\ pc[c] = "done" => outcome[c].kind \in {"return", "throw"}
            /\ hpc[c] = "enrich" =>
                  pc[c] = "done" /\ outcome[c].kind = "return" /\ queries[c] = <<>>)
    /\ [][\A c \in Calls :
            EnrichFails(c) =>
                /\ outcome[c].kind = "return"
                /\ responses'[c] = <<[status |-> 500, body |-> ErrorBody(LookupFailed)]>>]_vars

\* The scrape returned a ward, the portal query failed, and the request got
\* its one response, a 500.
C18_Witness ==
    \E c \in Calls :
        /\ hpc[c] = "done"
        /\ outcome[c].kind = "return"
        /\ queries[c] /= <<>>
        /\ responses[c] = <<[status |-> 500, body |-> ErrorBody(LookupFailed)]>>

\* The field a row is classified to.
RowField(cells) ==
    IF Len(cells) >= 2 THEN Classify(ToLowerCase(Trim(cells[1]))) ELSE "none"

\* The value of the last row of `rows` classified to field f, if there is one.
LastFor(rows, f) ==
    LET hits == {i \in DOMAIN rows : RowField(rows[i]) = f}
    IN  IF hits = {} THEN None ELSE Some(Trim(rows[Max(hits)][2]))

\* The rows in the order the table pass visits them: table after table, and
\* for each table the rows inside it; a row of a nested table is visited
\* with the enclosing table and again with its own.
VisitedRows(doc) == Flatten(doc.tables)

\* The rows of the document in document order.  In the documents of
\* ExtractPages a first row of more than two cells is the row that holds a
\* nested table, and the outer table then lists every row of the document.
DocumentRows(doc) ==
    IF doc.tables /= <<>> /\ doc.tables[1] /= <<>> /\ Len(doc.tables[1][1]) > 2
    THEN doc.tables[1]
    ELSE Flatten(doc.tables)

\* With `rows` the rows in the order that counts: each field for which a
\* row is classified has the trimmed value of the last such row, the empty
\* string included; and when that makes the ward empty, found is true and the
\* result check throws the no-ward error.
LastRowWins(c, rows) ==
    /\ \A f \in FieldNames :
          LastFor(rows, f) /= None => results[c][1][f] = LastFor(rows, f)
    /\ LastFor(rows, "ward") = Some("") =>
          /\ results[c][1].ward = Some("")
          /\ results[c][1].found
          /\ ResultCheck(results[c][1]) = Thrown("NoWardInformation")
          /\ pending[c].kind /= "none" => pending[c] = Thrown("NoWardInformation")

\* C19: a row classified as ward overwrites the ward of the text pass even
\* when its value cell is empty (the ward is then the empty string, found is
\* true, the result check throws the no-ward error), and of several rows
\* classified to one field the last one in document order gives the value.
C19_LastDocumentRowWins ==
    \A c \in Calls : results[c] /= None => LastRowWins(c, DocumentRows(page[c]))

\* What the table pass does instead (C19): of several rows classified to one
\* field the one visited last gives the value, the tables being visited in
\* document order and each table visiting the rows inside it, those of a
\* nested table too.
C19_LastVisitedRowWins ==
    \A c \in Calls : results[c] /= None => LastRowWins(c, VisitedRows(page[c]))

\* The text had ward 27, a ward row with 27 was followed by a ward row with
\* an empty value cell: the ward is the empty string, found is true, and the
\* result check threw the no-ward error.
C19_Witness ==
    \E c \in Calls :
        /\ results[c] /= None
        /\ TextPass(page[c].bodyText).ward = Some("27")
        /\ page[c].tables = << << <<"Ward", "27 ">>, <<" WARD NO", "">> >> >>
        /\ results[c][1].ward = Some("")
        /\ results[c][1].found
        /\ pending[c] = Thrown("NoWardInformation")

====
